---------------------------- MODULE Spec2Model ----------------------------
(***************************************************************************)
(* Model of hedwig's knowledge base, core/kb.py: the construction of an    *)
(* ExperimentKB from a triplet graph (ExperimentKB.__init__) and the read  *)
(* operations of the finished object.                                      *)
(*                                                                         *)
(* The graph is the environment: every query the constructor makes is a    *)
(* nondeterministic draw from a small universe of resources, and the sum   *)
(* of the facts read is bounded by MaxFacts.  The fields of the object     *)
(* are the variables.  A Python dict or defaultdict is a function whose    *)
(* DOMAIN is the key set, so that the key a defaultdict inserts when a     *)
(* missing key is read is visible.  A resource is the sequence of the code *)
(* points of its URI.                                                      *)
(*                                                                         *)
(* Not modelled: annotation weights, scores and class labels and the       *)
(* statistics computed from them (lines 64-70, 74-84, 220-227).            *)
(***************************************************************************)
EXTENDS Integers, Sequences, FiniteSets, TLC

\* ------------------------------------------------------------------ bounds

\* The constructor reads at most this many facts from the graph: examples,
\* annotation links, hierarchy edges, binary predicates and their pairs.
MaxFacts == 4

\* Depth of the interpreter's call stack for closure(); one more call raises.
RecursionLimit == 5

\* Read operations performed on a finished knowledge base.
MaxReads == 1

\* ------------------------------------------------------------- resources

uA == <<117, 65>>
uB == <<117, 66>>
xC == <<120, 67>>
\* "uA" followed by a non-ASCII character (e acute)
uAe == <<117, 65, 233>>
uR == <<117, 82>>
xS == <<120, 83>>
\* HEDWIG.Example, the class of the examples
HedwigExample == <<104, 69>>

\* Concept and instance resources of the graph.
RawURIs == {uA, uB, xC, uAe}

\* Object properties of the graph.
RelURIs == {uR, xS}

\* The k-th individual of the graph: "e0", "e1", ...
ExampleURI(k) == <<101, 48 + k>>

\* The namespace prefix "u".
NsU == <<117>>

\* -------------------------------------------------------------- variables

VARIABLES
    pc,                         \* position in __init__, then "done" or "error"
    user_namespaces,            \* self.user_namespaces
    instances_as_leaves,        \* the constructor's parameter
    examples_uris,              \* self.examples_uris
    uri_to_idx,                 \* self.uri_to_idx
    examples,                   \* self.examples: annotations of example i at i+1
    sub_class_of,               \* self.sub_class_of
    super_class_of,             \* self.super_class_of
    predicates,                 \* self.predicates
    binary_predicates,          \* self.binary_predicates
    members,                    \* self.members
    sub_class_of_closure,       \* self.sub_class_of_closure
    levels,                     \* self.levels
    stack,                      \* the active calls of closure(), innermost last
    pending,                    \* binary predicates the loop of line 177 has left
    binary_members,             \* self.binary_members
    reverse_binary_members,     \* self.reverse_binary_members
    binary_domains,             \* self.binary_domains
    bit_members,                \* self.bit_members
    bit_binary_members,         \* self.bit_binary_members
    reverse_bit_binary_members, \* self.reverse_bit_binary_members
    reads                       \* read operations performed so far

vars == <<pc, user_namespaces, instances_as_leaves, examples_uris, uri_to_idx,
          examples, sub_class_of, super_class_of, predicates, binary_predicates,
          members, sub_class_of_closure, levels, stack, pending, binary_members,
          reverse_binary_members, binary_domains, bit_members,
          bit_binary_members, reverse_bit_binary_members, reads>>

hierarchy_vars == <<sub_class_of, super_class_of, predicates>>

closure_vars == <<members, sub_class_of_closure, levels, stack>>

binary_vars == <<pending, binary_members, reverse_binary_members>>

bit_vars == <<binary_domains, bit_members, bit_binary_members,
              reverse_bit_binary_members>>

config_vars == <<user_namespaces, instances_as_leaves>>

example_vars == <<examples_uris, uri_to_idx, examples>>

\* ---------------------------------------------------------------- helpers

\* A dict with no key.
EmptyDict == [k \in {} |-> {}]

\* d[k] of a defaultdict as a value: the default when k is missing.
Get(d, k, default) == IF k \in DOMAIN d THEN d[k] ELSE default

\* The defaultdict after d[k] was read: a missing key is inserted.
Touch(d, k, default) ==
    IF k \in DOMAIN d THEN d ELSE [x \in DOMAIN d \cup {k} |->
                                      IF x = k THEN default ELSE d[x]]

\* The dict after d[k] = v.
Put(d, k, v) == [x \in DOMAIN d \cup {k} |-> IF x = k THEN v ELSE d[x]]

\* The elements of a list.
Range(s) == {s[i] : i \in 1..Len(s)}

\* All lists over S of at most n elements.
BoundedSeq(S, n) == UNION {[1..m -> S] : m \in 0..n}

\* unicode(s).encode('ascii', 'ignore'): the non-ASCII characters are dropped.
IsAscii(c) == c < 128

to_uni(s) == SelectSeq(s, IsAscii)

\* uri.startswith(ns)
StartsWith(uri, ns) == Len(ns) <= Len(uri) /\ SubSeq(uri, 1, Len(ns)) = ns

\* ExperimentKB.user_defined
user_defined(namespaces, uri) ==
    IF namespaces /= <<>>
    THEN \E i \in 1..Len(namespaces) : StartsWith(uri, namespaces[i])
    ELSE TRUE

\* self.dummy_root = 'root'
dummy_root == <<114, 111, 111, 116>>

\* ------------------------------------------------------------------- Init

Init ==
    /\ pc = "start"
    /\ user_namespaces \in {<<>>, <<NsU>>}
    /\ instances_as_leaves \in BOOLEAN
    /\ examples_uris = <<>>
    /\ uri_to_idx = EmptyDict
    /\ examples = <<>>
    /\ sub_class_of = EmptyDict
    /\ super_class_of = EmptyDict
    /\ predicates = {}
    /\ binary_predicates = {}
    /\ members = EmptyDict
    /\ sub_class_of_closure = EmptyDict
    /\ levels = EmptyDict
    /\ stack = <<>>
    /\ pending = {}
    /\ binary_members = EmptyDict
    /\ reverse_binary_members = EmptyDict
    /\ binary_domains = EmptyDict
    /\ bit_members = EmptyDict
    /\ bit_binary_members = EmptyDict
    /\ reverse_bit_binary_members = EmptyDict
    /\ reads = 0

\* ------------------------------------------------------- size of the graph

\* The positions <<k, i>> of a dict of lists.
Entries(d) == UNION {{k} \X (1..Len(d[k])) : k \in DOMAIN d}

\* Hierarchy edges read from the graph so far, the typings of the examples
\* themselves (which the example triples already count) left out.
EdgeCount ==
    Cardinality({e \in Entries(sub_class_of) :
                    sub_class_of[e[1]][e[2]] \notin {HedwigExample, dummy_root}})

AnnotationCount ==
    Cardinality(UNION {{i} \X (1..Len(examples[i].annotations)) :
                          i \in 1..Len(examples)})

PairCount ==
    Cardinality(UNION {UNION {{<<p, el>>} \X (1..Len(binary_members[p][el])) :
                                 el \in DOMAIN binary_members[p]} :
                          p \in DOMAIN binary_members})

\* The facts read so far.
GraphSize ==
    Len(examples_uris) + AnnotationCount + EdgeCount
        + Cardinality(binary_predicates) + PairCount

Remaining == MaxFacts - GraphSize

\* ------------------------------------------------------ loading examples

\* Lines 41-43: the subjects typed as HEDWIG.Example, in the graph's order.
ListExamples ==
    /\ pc = "start"
    /\ \E n \in 0..MaxFacts :
          examples_uris' = [i \in 1..n |-> ExampleURI(i - 1)]
    /\ pc' = "load"
    /\ UNCHANGED <<config_vars, uri_to_idx, examples, hierarchy_vars,
                   binary_predicates, closure_vars, binary_vars, bit_vars, reads>>

\* Lines 46-89, one iteration: the annotations of the next example, each
\* converted by to_uni, and its dense id.
LoadExample ==
    /\ pc = "load"
    /\ Len(examples) < Len(examples_uris)
    /\ LET i == Len(examples)
           ex_uri == examples_uris[i + 1]
       IN  /\ \E links \in BoundedSeq(RawURIs, Remaining) :
                 examples' = Append(examples,
                     [id |-> i,
                      annotations |-> [k \in 1..Len(links) |-> to_uni(links[k])]])
           /\ uri_to_idx' = Put(uri_to_idx, ex_uri, i)
    /\ UNCHANGED <<pc, config_vars, examples_uris, hierarchy_vars,
                   binary_predicates, closure_vars, binary_vars, bit_vars, reads>>

\* Line 62: an annotation link that carries no annotation raises IndexError.
LoadExampleFails ==
    /\ pc = "load"
    /\ Len(examples) < Len(examples_uris)
    /\ pc' = "error"
    /\ UNCHANGED <<config_vars, example_vars, hierarchy_vars, binary_predicates,
                   closure_vars, binary_vars, bit_vars, reads>>

\* The check of line 93 left out.
NoExamples_Unchecked == FALSE

\* Line 93: not self.examples
NoExamples == examples = <<>>

\* Lines 91-95: no example at all raises.
CheckExamples ==
    /\ pc = "load"
    /\ Len(examples) = Len(examples_uris)
    /\ pc' = IF NoExamples THEN "error" ELSE "subclass"
    /\ UNCHANGED <<config_vars, example_vars, hierarchy_vars, binary_predicates,
                   closure_vars, binary_vars, bit_vars, reads>>

\* -------------------------------------------------------------- hierarchy

\* The three fields add_sub_class writes.
Hierarchy == [sub_class_of |-> sub_class_of,
              super_class_of |-> super_class_of,
              predicates |-> predicates]

\* ExperimentKB.add_sub_class
add_sub_class(h, sub0, obj0) ==
    LET sub == to_uni(sub0)
        obj == to_uni(obj0)
    IN  [predicates |-> h.predicates \cup {sub, obj},
         sub_class_of |->
             Put(h.sub_class_of, sub, Append(Get(h.sub_class_of, sub, <<>>), obj)),
         super_class_of |->
             Put(h.super_class_of, obj, Append(Get(h.super_class_of, obj, <<>>), sub))]

\* Lines 102-103 and 108-109: the edge is added when both ends are user defined.
AddIfUserDefined(h, sub, obj) ==
    IF user_defined(user_namespaces, sub) /\ user_defined(user_namespaces, obj)
    THEN add_sub_class(h, sub, obj)
    ELSE h

SetHierarchy(h) ==
    /\ sub_class_of' = h.sub_class_of
    /\ super_class_of' = h.super_class_of
    /\ predicates' = h.predicates

\* Lines 101-103, one iteration: a subClassOf triple of the graph.
AddSubClassOfEdge ==
    /\ pc = "subclass"
    /\ Remaining > 0
    /\ \E sub \in RawURIs, obj \in RawURIs :
          SetHierarchy(AddIfUserDefined(Hierarchy, sub, obj))
    /\ UNCHANGED <<pc, config_vars, example_vars, binary_predicates,
                   closure_vars, binary_vars, bit_vars, reads>>

\* Line 106: the type triples are read only with instances_as_leaves.
EndSubClassOf ==
    /\ pc = "subclass"
    /\ pc' = IF instances_as_leaves THEN "example_types" ELSE "relations"
    /\ UNCHANGED <<config_vars, example_vars, hierarchy_vars, binary_predicates,
                   closure_vars, binary_vars, bit_vars, reads>>

\* The type triples (example, HEDWIG.Example) that line 41 found, as the loop
\* of lines 107-109 meets them, in the order of the examples.
RECURSIVE AddExampleTypeEdges(_, _)
AddExampleTypeEdges(h, i) ==
    IF i > Len(examples_uris)
    THEN h
    ELSE AddExampleTypeEdges(
             AddIfUserDefined(h, examples_uris[i], HedwigExample), i + 1)

AddExampleTypes ==
    /\ pc = "example_types"
    /\ SetHierarchy(AddExampleTypeEdges(Hierarchy, 1))
    /\ pc' = "types"
    /\ UNCHANGED <<config_vars, example_vars, binary_predicates,
                   closure_vars, binary_vars, bit_vars, reads>>

\* Lines 107-109, one iteration: another type triple of the graph.
AddTypeEdge ==
    /\ pc = "types"
    /\ Remaining > 0
    /\ \E sub \in RawURIs, obj \in RawURIs :
          SetHierarchy(AddIfUserDefined(Hierarchy, sub, obj))
    /\ UNCHANGED <<pc, config_vars, example_vars, binary_predicates,
                   closure_vars, binary_vars, bit_vars, reads>>

EndTypes ==
    /\ pc = "types"
    /\ pc' = "relations"
    /\ UNCHANGED <<config_vars, example_vars, hierarchy_vars, binary_predicates,
                   closure_vars, binary_vars, bit_vars, reads>>

\* Lines 112-120: the user-defined properties whose domain and range are the
\* example class.
FindBinaryPredicates ==
    /\ pc = "relations"
    /\ \E both \in SUBSET RelURIs :
          /\ Cardinality(both) <= Remaining
          /\ binary_predicates' =
                 {pred \in both : user_defined(user_namespaces, pred)}
    /\ pc' = "members"
    /\ UNCHANGED <<config_vars, example_vars, hierarchy_vars,
                   closure_vars, binary_vars, bit_vars, reads>>

\* ---------------------------------------------------------------- members

\* The annotations of all examples.
Annotated == UNION {Range(examples[i].annotations) : i \in 1..Len(examples)}

\* Lines 124-127: each example is a member of each of its annotations.
MembersOfInstances ==
    [inst \in Annotated |->
        {examples[i].id : i \in {j \in 1..Len(examples) :
                                    inst \in Range(examples[j].annotations)}}]

\* Lines 129-134: each example is a member of the types of its annotations.
MembersOfTypes(types) ==
    [obj \in UNION {types[inst] : inst \in Annotated} |->
        {examples[i].id : i \in {j \in 1..Len(examples) :
            \E inst \in Range(examples[j].annotations) : obj \in types[inst]}}]

\* The resources str() converts: those of ASCII characters only.
AsciiURIs == {uri \in RawURIs : to_uni(uri) = uri}

\* Lines 122-134
CalcMembers ==
    /\ pc = "members"
    /\ IF instances_as_leaves
       THEN members' = MembersOfInstances
       ELSE \E types \in [Annotated -> SUBSET AsciiURIs] :
               /\ Cardinality(UNION {{inst} \X types[inst] : inst \in Annotated})
                      <= Remaining
               /\ members' = MembersOfTypes(types)
    /\ pc' = "roots"
    /\ UNCHANGED <<config_vars, example_vars, hierarchy_vars, binary_predicates,
                   sub_class_of_closure, levels, stack, binary_vars, bit_vars, reads>>

\* ------------------------------------------------------------------- root

\* All orders in which a set can be iterated.
Orders(S) == {f \in [1..Cardinality(S) -> S] : Range(f) = S}

\* Line 137: reading self.sub_class_of[pred] for each key of super_class_of
\* inserts the missing ones.
TouchAll(d, keys, default) ==
    [x \in DOMAIN d \cup keys |-> IF x \in DOMAIN d THEN d[x] ELSE default]

\* Lines 137-138: the predicates that have subclasses and no superclass.
Roots(h) ==
    {pred \in DOMAIN h.super_class_of :
        Get(h.sub_class_of, pred, <<>>) = <<>>}

\* Lines 143-144
RECURSIVE AddRoots(_, _, _)
AddRoots(h, roots, i) ==
    IF i > Len(roots)
    THEN h
    ELSE AddRoots(add_sub_class(h, roots[i], dummy_root), roots, i + 1)

\* Lines 146-148: the closure of each predicate with subclasses starts as
\* its direct superclasses.
InitialClosure(h) ==
    [pred \in DOMAIN h.super_class_of |->
        Range(Get(h.sub_class_of, pred, <<>>))]

\* Lines 136-148 and 168
AddDummyRoot ==
    /\ pc = "roots"
    /\ \E roots \in Orders(Roots(Hierarchy)) :
          LET touched == [Hierarchy EXCEPT
                  !.sub_class_of = TouchAll(sub_class_of, DOMAIN super_class_of, <<>>),
                  !.predicates = predicates \cup {dummy_root}]
              rooted == AddRoots(touched, roots, 1)
          IN  /\ super_class_of' = rooted.super_class_of
              /\ predicates' = rooted.predicates
              /\ sub_class_of' = TouchAll(rooted.sub_class_of,
                                          DOMAIN rooted.super_class_of, <<>>)
              /\ sub_class_of_closure' = InitialClosure(rooted)
    /\ levels' = EmptyDict
    /\ pc' = "closure"
    /\ UNCHANGED <<config_vars, example_vars, binary_predicates, members, stack,
                   binary_vars, bit_vars, reads>>

\* ---------------------------------------------------------------- closure

\* Line 152: children = self.super_class_of[pred]
Children(sup, pred) == Get(sup, pred, <<>>)

\* A predicate is given the level of its first visit only.
AddLevel_FirstVisit(lev, lvl, pred) ==
    IF \E l \in DOMAIN lev : pred \in lev[l]
    THEN lev
    ELSE Put(lev, lvl, Get(lev, lvl, {}) \cup {pred})

\* Line 153: self.levels[lvl].add(pred)
AddLevel(lev, lvl, pred) == Put(lev, lvl, Get(lev, lvl, {}) \cup {pred})

\* The update of line 159 with its two sides exchanged: the closure of
\* child is added to the closure of pred.
PropagateClosure_Swapped(scc, pred, child) ==
    LET read == Touch(Touch(scc, pred, {}), child, {})
    IN  Put(read, pred, read[pred] \cup read[child])

\* Lines 158-159: the closure of pred is added to the closure of child.
PropagateClosure(scc, pred, child) ==
    LET read == Touch(scc, pred, {})
    IN  Put(read, child, Get(read, child, {}) \cup read[pred])

\* Line 161 as an update of the members already stored for pred.
MembersAfter_Merged(mem, has_children, pred, mems) ==
    IF has_children
    THEN Put(mem, pred, Get(mem, pred, {}) \cup mems)
    ELSE Touch(mem, pred, {})

\* Lines 161 and 165: the members after closure(pred) returns.
MembersAfter(mem, has_children, pred, mems) ==
    IF has_children THEN Put(mem, pred, mems) ELSE Touch(mem, pred, {})

\* Lines 163 and 165: the value closure(pred) returns.
Returned(mem, has_children, pred, mems) ==
    IF has_children THEN mems ELSE Get(mem, pred, {})

\* Lines 151-153: a call of closure(pred, lvl) begins.
Enter(pred, lvl) ==
    /\ super_class_of' = Touch(super_class_of, pred, <<>>)
    /\ levels' = AddLevel(levels, lvl, pred)
    /\ stack' = Append(stack, [pred |-> pred, lvl |-> lvl, i |-> 1, mems |-> {}])

Top == stack[Len(stack)]

\* Line 171: closure(self.dummy_root, 0)
CallClosure ==
    /\ pc = "closure"
    /\ stack = <<>>
    /\ Enter(dummy_root, 0)
    /\ UNCHANGED <<pc, config_vars, example_vars, sub_class_of, predicates,
                   binary_predicates, members, sub_class_of_closure,
                   binary_vars, bit_vars, reads>>

\* Lines 157-160: the next child of the innermost call, up to the recursive call.
ClosureDescend ==
    /\ pc = "closure"
    /\ stack /= <<>>
    /\ Top.i <= Len(Children(super_class_of, Top.pred))
    /\ Len(stack) < RecursionLimit
    /\ LET child == Children(super_class_of, Top.pred)[Top.i]
       IN  /\ sub_class_of_closure' =
                  PropagateClosure(sub_class_of_closure, Top.pred, child)
           /\ Enter(child, Top.lvl + 1)
    /\ UNCHANGED <<pc, config_vars, example_vars, sub_class_of, predicates,
                   binary_predicates, members, binary_vars, bit_vars, reads>>

\* Line 160 when the call stack is full: the interpreter raises RuntimeError
\* (maximum recursion depth exceeded) and the constructor fails.
ClosureRecursionError ==
    /\ pc = "closure"
    /\ stack /= <<>>
    /\ Top.i <= Len(Children(super_class_of, Top.pred))
    /\ Len(stack) >= RecursionLimit
    /\ sub_class_of_closure' =
           PropagateClosure(sub_class_of_closure, Top.pred,
                            Children(super_class_of, Top.pred)[Top.i])
    /\ pc' = "error"
    /\ UNCHANGED <<config_vars, example_vars, hierarchy_vars, binary_predicates,
                   members, levels, stack, binary_vars, bit_vars, reads>>

\* Lines 160-165: the innermost call returns; its caller merges the members
\* returned and moves to its next child.  The outermost call returns to
\* line 174.
ClosureReturn ==
    /\ pc = "closure"
    /\ stack /= <<>>
    /\ Top.i > Len(Children(super_class_of, Top.pred))
    /\ LET has_children == Children(super_class_of, Top.pred) /= <<>>
           ret == Returned(members, has_children, Top.pred, Top.mems)
           rest == SubSeq(stack, 1, Len(stack) - 1)
       IN  /\ members' = MembersAfter(members, has_children, Top.pred, Top.mems)
           /\ IF rest = <<>>
              THEN /\ stack' = <<>>
                   /\ pc' = "binary"
                   /\ pending' = binary_predicates
              ELSE /\ stack' = [rest EXCEPT ![Len(rest)] =
                                   [@ EXCEPT !.mems = @ \cup ret, !.i = @ + 1]]
                   /\ UNCHANGED <<pc, pending>>
    /\ UNCHANGED <<config_vars, example_vars, hierarchy_vars, binary_predicates,
                   sub_class_of_closure, levels, binary_members,
                   reverse_binary_members, bit_vars, reads>>

\* The fields closure() reads and writes.
Traversal == [super_class_of |-> super_class_of,
              sub_class_of_closure |-> sub_class_of_closure,
              members |-> members,
              levels |-> levels]

\* Lines 151-165 as one call: the fields after closure(pred, lvl) has
\* returned, and the value it returns.  VisitChildren is the loop of lines
\* 157-160 from the i-th child on.
RECURSIVE closure(_, _, _), VisitChildren(_, _, _, _, _)
closure(t, pred, lvl) ==
    LET entered == [t EXCEPT
                !.super_class_of = Touch(t.super_class_of, pred, <<>>),
                !.levels = AddLevel(t.levels, lvl, pred)]
        has_children == Children(entered.super_class_of, pred) /= <<>>
        visited == IF has_children
                   THEN VisitChildren(entered, pred, lvl, 1, {})
                   ELSE [t |-> entered, mems |-> {}]
    IN  [t |-> [visited.t EXCEPT
                !.members = MembersAfter(visited.t.members, has_children,
                                         pred, visited.mems)],
         ret |-> Returned(visited.t.members, has_children, pred, visited.mems)]

VisitChildren(t, pred, lvl, i, mems) ==
    IF i > Len(Children(t.super_class_of, pred))
    THEN [t |-> t, mems |-> mems]
    ELSE LET child == Children(t.super_class_of, pred)[i]
             propagated == [t EXCEPT !.sub_class_of_closure =
                 PropagateClosure(t.sub_class_of_closure, pred, child)]
             called == closure(propagated, child, lvl + 1)
         IN  VisitChildren(called.t, pred, lvl, i + 1, mems \cup called.ret)

\* ------------------------------------------------------ binary predicates

\* The individuals a pair of the graph can name: the examples and one
\* resource that is no example.
Individuals == {ExampleURI(k) : k \in 0..Len(examples_uris)}

\* Lines 182-185 and 188-191: d[pred][key].append(value), the list created
\* when the key is new.
AppendTo(d, pred, key, value) ==
    LET of_pred == Get(d, pred, EmptyDict)
    IN  Put(d, pred, Put(of_pred, key, Append(Get(of_pred, key, <<>>), value)))

\* Lines 188-191 keyed by the subject instead of the object.
AddPair_ReverseBySubject(b, pred, pair) ==
    LET el1 == uri_to_idx[pair[1]]
        el2 == uri_to_idx[pair[2]]
    IN  [forward |-> AppendTo(b.forward, pred, el1, el2),
         reverse |-> AppendTo(b.reverse, pred, el1, el2)]

\* Lines 181-191: one pair of pred.
AddPair(b, pred, pair) ==
    LET el1 == uri_to_idx[pair[1]]
        el2 == uri_to_idx[pair[2]]
    IN  [forward |-> AppendTo(b.forward, pred, el1, el2),
         reverse |-> AppendTo(b.reverse, pred, el2, el1)]

\* Lines 180-191: the pairs of pred in the graph's order.
RECURSIVE AddPairs(_, _, _, _)
AddPairs(b, pred, pairs, i) ==
    IF i > Len(pairs)
    THEN b
    ELSE AddPairs(AddPair(b, pred, pairs[i]), pred, pairs, i + 1)

BinaryMaps == [forward |-> binary_members, reverse |-> reverse_binary_members]

\* Line 181: both ends of the pair are examples.
Known(pair) == pair[1] \in DOMAIN uri_to_idx /\ pair[2] \in DOMAIN uri_to_idx

\* Lines 177-191, one iteration of the outer loop: all pairs of one binary
\* predicate.
IndexBinaryPredicate ==
    /\ pc = "binary"
    /\ \E pred \in pending :
          /\ pending' = pending \ {pred}
          /\ \E pairs \in BoundedSeq(Individuals \X Individuals, Remaining) :
                /\ \A i \in 1..Len(pairs) : Known(pairs[i])
                /\ LET b == AddPairs(BinaryMaps, pred, pairs, 1)
                   IN  /\ binary_members' = b.forward
                       /\ reverse_binary_members' = b.reverse
    /\ UNCHANGED <<pc, config_vars, example_vars, hierarchy_vars,
                   binary_predicates, closure_vars, bit_vars, reads>>

\* Line 181: a pair that names a resource that is no example raises KeyError,
\* after the pairs before it were indexed.
IndexBinaryPredicateFails ==
    /\ pc = "binary"
    /\ Remaining > 0
    /\ \E pred \in pending :
          \E pairs \in BoundedSeq(Individuals \X Individuals, Remaining - 1),
             bad \in Individuals \X Individuals :
                /\ \A i \in 1..Len(pairs) : Known(pairs[i])
                /\ ~Known(bad)
                /\ LET b == AddPairs(BinaryMaps, pred, pairs, 1)
                   IN  /\ binary_members' = b.forward
                       /\ reverse_binary_members' = b.reverse
    /\ pc' = "error"
    /\ UNCHANGED <<config_vars, example_vars, hierarchy_vars, binary_predicates,
                   closure_vars, pending, bit_vars, reads>>

\* ---------------------------------------------------------------- bitsets

\* ExperimentKB.n_examples
n_examples == Len(examples)

\* ExperimentKB.get_empty_domain: n_examples bits, all False.
get_empty_domain == [idx \in 0..(n_examples - 1) |-> FALSE]

\* ExperimentKB.get_full_domain: n_examples bits, all True.
get_full_domain == [idx \in 0..(n_examples - 1) |-> TRUE]

\* Line 350 setting the bit after the index.
indices_to_bits_OffByOne(indices) ==
    [idx \in DOMAIN get_empty_domain |->
        get_empty_domain[idx] \/ (idx - 1) \in indices]

\* ExperimentKB.indices_to_bits, for indices given as a set.
indices_to_bits(indices) ==
    [idx \in DOMAIN get_empty_domain |-> get_empty_domain[idx] \/ idx \in indices]

\* The integers of S in increasing order.
RECURSIVE Ascending(_)
Ascending(S) ==
    IF S = {}
    THEN <<>>
    ELSE LET least == CHOOSE x \in S : \A y \in S : x <= y
         IN  <<least>> \o Ascending(S \ {least})

\* ExperimentKB.bits_to_indices: the positions of the set bits, in order.
bits_to_indices(bits) == Ascending({idx \in DOMAIN bits : bits[idx]})

\* Lines 194-199
BinaryDomains(fwd, rev) ==
    [pred \in binary_predicates |->
        <<indices_to_bits(DOMAIN fwd[pred]), indices_to_bits(DOMAIN rev[pred])>>]

\* Lines 202-204
BitMembers(mem) == [pred \in DOMAIN mem |-> indices_to_bits(mem[pred])]

\* Lines 209-218, for one of the two maps: a predicate with no element gets
\* no key.
BitAdjacency(adj, over) ==
    [pred \in {p \in over : DOMAIN adj[p] /= {}} |->
        [el \in DOMAIN adj[pred] |-> indices_to_bits(Range(adj[pred][el]))]]

\* Lines 193-218.  Lines 197-198 read binary_members[pred] and
\* reverse_binary_members[pred] of each binary predicate, which inserts it.
BuildBitsets ==
    /\ pc = "binary"
    /\ pending = {}
    /\ LET fwd == TouchAll(binary_members, binary_predicates, EmptyDict)
           rev == TouchAll(reverse_binary_members, binary_predicates, EmptyDict)
       IN  /\ binary_members' = fwd
           /\ reverse_binary_members' = rev
           /\ binary_domains' = BinaryDomains(fwd, rev)
           /\ bit_members' = BitMembers(members)
           /\ bit_binary_members' = BitAdjacency(fwd, DOMAIN fwd)
           /\ reverse_bit_binary_members' = BitAdjacency(rev, DOMAIN fwd)
    /\ pc' = "done"
    /\ UNCHANGED <<config_vars, example_vars, hierarchy_vars, binary_predicates,
                   closure_vars, pending, reads>>

\* ------------------------------------------------------- read operations

\* The labels a caller may pass: those the graph can hold, the root and the
\* relations, whether the knowledge base has seen them or not.
QueryLabels == {to_uni(uri) : uri \in RawURIs} \cup RelURIs \cup {dummy_root}

\* A read operation runs on a finished knowledge base.
CanRead == pc = "done" /\ reads < MaxReads

\* ExperimentKB.super_classes
SuperClasses(pred) ==
    /\ CanRead
    /\ sub_class_of_closure' = Touch(sub_class_of_closure, pred, {})
    /\ reads' = reads + 1
    /\ UNCHANGED <<pc, config_vars, example_vars, hierarchy_vars, binary_predicates,
                   members, levels, stack, binary_vars, bit_vars>>

\* ExperimentKB.get_root
GetRoot ==
    /\ CanRead
    /\ reads' = reads + 1
    /\ UNCHANGED <<pc, config_vars, example_vars, hierarchy_vars, binary_predicates,
                   closure_vars, binary_vars, bit_vars>>

\* ExperimentKB.get_subclasses
GetSubclasses(label) ==
    /\ CanRead
    /\ super_class_of' = Touch(super_class_of, label, <<>>)
    /\ reads' = reads + 1
    /\ UNCHANGED <<pc, config_vars, example_vars, sub_class_of, predicates,
                   binary_predicates, closure_vars, binary_vars, bit_vars>>

\* ExperimentKB.get_members.  bit_members is a plain dict: a missing key
\* raises KeyError and writes nothing.
GetMembers(predicate, bit) ==
    /\ CanRead
    /\ members' =
           IF predicate \in predicates /\ ~bit
           THEN Touch(members, predicate, {}) ELSE members
    /\ bit_binary_members' =
           IF predicate \notin predicates /\ bit
           THEN Touch(bit_binary_members, predicate, EmptyDict)
           ELSE bit_binary_members
    /\ binary_members' =
           IF predicate \notin predicates /\ ~bit
           THEN Touch(binary_members, predicate, EmptyDict)
           ELSE binary_members
    /\ reads' = reads + 1
    /\ UNCHANGED <<pc, config_vars, example_vars, hierarchy_vars, binary_predicates,
                   sub_class_of_closure, levels, stack, pending,
                   reverse_binary_members, binary_domains, bit_members,
                   reverse_bit_binary_members>>

\* ExperimentKB.get_reverse_members
GetReverseMembers(predicate, bit) ==
    /\ CanRead
    /\ reverse_bit_binary_members' =
           IF bit
           THEN Touch(reverse_bit_binary_members, predicate, EmptyDict)
           ELSE reverse_bit_binary_members
    /\ reverse_binary_members' =
           IF bit
           THEN reverse_binary_members
           ELSE Touch(reverse_binary_members, predicate, EmptyDict)
    /\ reads' = reads + 1
    /\ UNCHANGED <<pc, config_vars, example_vars, hierarchy_vars, binary_predicates,
                   closure_vars, pending, binary_members, binary_domains,
                   bit_members, bit_binary_members>>

\* ExperimentKB.get_domains: binary_domains is a plain dict.
GetDomains(predicate) ==
    /\ CanRead
    /\ reads' = reads + 1
    /\ UNCHANGED <<pc, config_vars, example_vars, hierarchy_vars, binary_predicates,
                   closure_vars, binary_vars, bit_vars>>

\* ExperimentKB.bits_to_indices and ExperimentKB.indices_to_bits: both build
\* a new value from their argument.
ConvertBits ==
    /\ CanRead
    /\ \E indices \in SUBSET (0..(n_examples - 1)) :
          bits_to_indices(indices_to_bits(indices)) = Ascending(indices)
    /\ reads' = reads + 1
    /\ UNCHANGED <<pc, config_vars, example_vars, hierarchy_vars, binary_predicates,
                   closure_vars, binary_vars, bit_vars>>

Read ==
    \/ \E pred \in QueryLabels : SuperClasses(pred)
    \/ GetRoot
    \/ \E label \in QueryLabels : GetSubclasses(label)
    \/ \E predicate \in QueryLabels, bit \in BOOLEAN : GetMembers(predicate, bit)
    \/ \E predicate \in QueryLabels, bit \in BOOLEAN :
          GetReverseMembers(predicate, bit)
    \/ \E predicate \in QueryLabels : GetDomains(predicate)
    \/ ConvertBits

\* ---------------------------------------------------------- specification

Construct ==
    \/ ListExamples
    \/ LoadExample
    \/ LoadExampleFails
    \/ CheckExamples
    \/ AddSubClassOfEdge
    \/ EndSubClassOf
    \/ AddExampleTypes
    \/ AddTypeEdge
    \/ EndTypes
    \/ FindBinaryPredicates
    \/ CalcMembers
    \/ AddDummyRoot
    \/ CallClosure
    \/ ClosureDescend
    \/ ClosureRecursionError
    \/ ClosureReturn
    \/ IndexBinaryPredicate
    \/ IndexBinaryPredicateFails
    \/ BuildBitsets

\* The construction of a knowledge base.
Next == Construct

Spec == Init /\ [][Next]_vars

\* The constructor runs in one thread that keeps executing until it returns
\* or raises.
FairSpec == Spec /\ WF_vars(Next)

\* The construction, and the read operations on the finished object.
ReadNext == Construct \/ Read

ReadSpec == Init /\ [][ReadNext]_vars

\* ------------------------------------------------- vocabulary of the claims

\* The constructor has returned without raising.
Constructed == pc = "done"

\* The direct superclasses and subclasses recorded for a predicate.
Parents(p) == Range(Get(sub_class_of, p, <<>>))

ChildSet(p) == Range(Get(super_class_of, p, <<>>))

\* The value super_classes(p) returns.
ClosureOf(p) == Get(sub_class_of_closure, p, {})

\* The value get_members(p, bit=False) returns for a unary predicate.
MembersOf(p) == Get(members, p, {})

\* The ids of the examples.
ExampleIds == 0..(n_examples - 1)

\* S and everything below it, k subclass steps deep.
RECURSIVE Below(_, _)
Below(S, k) ==
    IF k = 0 THEN S ELSE Below(S \cup UNION {ChildSet(q) : q \in S}, k - 1)

ReachableFromRoot == Below({dummy_root}, Cardinality(predicates))

\* No predicate is below itself.
Acyclic ==
    \A p \in predicates : p \notin Below(ChildSet(p), Cardinality(predicates))

\* The predicates that a path of exactly d subclass steps from the root reaches.
RECURSIVE AtDepth(_)
AtDepth(d) ==
    IF d = 0 THEN {dummy_root} ELSE UNION {ChildSet(q) : q \in AtDepth(d - 1)}

\* The level sets that hold p.
LevelsOf(p) == {lvl \in DOMAIN levels : p \in levels[lvl]}

\* The examples whose annotation list holds the concept.
AnnotatedWith(c) ==
    {examples[i].id : i \in {j \in 1..Len(examples) :
                                c \in Range(examples[j].annotations)}}
\* ------------------------------------------------------------------ claims

\* C1, as claimed, over the acyclic hierarchies of the data model: after
\* construction the closure of the root is empty and the closure of every
\* predicate is the union, over its direct parents q, of the closure of q
\* and q itself.
C1_ClosureIsUnionOverParents ==
    (Constructed /\ Acyclic) =>
        /\ ClosureOf(dummy_root) = {}
        /\ \A p \in predicates :
              ClosureOf(p) = UNION {ClosureOf(q) \cup {q} : q \in Parents(p)}

\* C2, as claimed: after construction the members stored for the root are
\* all example ids.
C2_RootCoversPopulation ==
    Constructed => MembersOf(dummy_root) = ExampleIds

\* C3: after construction, for every binary predicate b and example ids i
\* and j, j is in the forward list of i exactly if i is in the reverse list
\* of j.
C3_ForwardReverseInverse ==
    Constructed =>
        \A b \in binary_predicates : \A i \in ExampleIds, j \in ExampleIds :
            j \in Range(Get(Get(binary_members, b, EmptyDict), i, <<>>))
                <=> i \in Range(Get(Get(reverse_binary_members, b, EmptyDict), j, <<>>))

\* C3's case: a constructed knowledge base that indexed a pair of two
\* different examples.
C3_Witness ==
    /\ Constructed
    /\ \E b \in binary_predicates : \E i \in DOMAIN binary_members[b] :
          \E k \in 1..Len(binary_members[b][i]) : binary_members[b][i][k] /= i

\* C4, as claimed: after construction every concept with no parent recorded
\* in the graph, whether it is part of a hierarchy edge or known only from
\* an annotation, is a direct child of the root.
C4_ParentlessUnderRoot ==
    Constructed =>
        \A c \in (predicates \cup Annotated) \ {dummy_root} :
            Parents(c) \ {dummy_root} = {} => c \in ChildSet(dummy_root)

\* The fields of the knowledge base.
KBFields == <<config_vars, example_vars, hierarchy_vars, binary_predicates,
              members, sub_class_of_closure, levels, binary_members,
              reverse_binary_members, bit_vars>>

\* C5, as claimed: a step taken on a constructed knowledge base, which is a
\* read operation, leaves every field unchanged, key sets included.
C5_ReadsChangeNothing == [][Constructed => UNCHANGED KBFields]_vars

\* C6: once the graph has yielded no example, construction is still in the
\* loading loop or has failed, and nothing of the hierarchy, the members,
\* the root or the bitsets exists.
C6_NoExamplesFailsFast ==
    (pc /= "start" /\ examples_uris = <<>>) =>
        /\ pc \in {"load", "error"}
        /\ sub_class_of = EmptyDict /\ super_class_of = EmptyDict
        /\ predicates = {} /\ binary_predicates = {}
        /\ members = EmptyDict /\ sub_class_of_closure = EmptyDict
        /\ levels = EmptyDict
        /\ binary_domains = EmptyDict /\ bit_members = EmptyDict
        /\ bit_binary_members = EmptyDict
        /\ reverse_bit_binary_members = EmptyDict

\* C6's case: construction over no example has raised.
C6_Witness == pc = "error" /\ examples_uris = <<>>

\* The bitset of p is stored and is the member set of p, within the ids.
IndexConsistent(p) ==
    /\ p \in DOMAIN members
    /\ p \in DOMAIN bit_members
    /\ members[p] \subseteq ExampleIds
    /\ Range(bits_to_indices(bit_members[p])) = members[p]

C8_MembersBottomUp ==
    (Constructed /\ Acyclic) =>
        \A p \in predicates :
            IF ChildSet(p) /= {}
            THEN MembersOf(p) = UNION {MembersOf(c) : c \in ChildSet(p)}
            ELSE instances_as_leaves => MembersOf(p) = AnnotatedWith(p)

\* C8's case: an annotated leaf concept that the traversal visits through
\* two parents.
C8_Witness ==
    /\ Constructed /\ Acyclic /\ instances_as_leaves
    /\ \E p \in predicates :
          /\ ChildSet(p) = {}
          /\ Cardinality(Parents(p)) >= 2
          /\ MembersOf(p) /= {}

\* C9, as claimed: after the traversal every concept reachable from the
\* root is in exactly one level set, and the root is in level 0.
C9_SingleLevel ==
    Constructed =>
        /\ LevelsOf(dummy_root) = {0}
        /\ \A p \in ReachableFromRoot : Cardinality(LevelsOf(p)) = 1

\* C9, amended: after the traversal the level set d holds exactly the
\* concepts that some path of d subclass steps from the root reaches: the
\* root is in level 0 alone, every reachable concept is in at least one
\* level set, and a concept reached at several depths is in the level set
\* of each of them.
C9_LevelsAreDepths ==
    Constructed =>
        /\ LevelsOf(dummy_root) = {0}
        /\ \A p \in ReachableFromRoot : LevelsOf(p) /= {}
        /\ \A d \in 0..Cardinality(predicates) : Get(levels, d, {}) = AtDepth(d)
        /\ \A d \in DOMAIN levels : d \in 0..Cardinality(predicates)

\* C9's case: a concept reached through two parents at different depths.
C9_Witness ==
    /\ Constructed
    /\ \E p \in predicates : Cardinality(LevelsOf(p)) >= 2
\* The traversal from the root has returned.
Traversed == pc \in {"binary", "done"}

=============================================================================
